---- MODULE Spec2Model ----
(***************************************************************************)
(* A model of slack_iam (src/iam.py): the /iam chat command that records   *)
(* a user's work status per calendar date and lists today's statuses, a    *)
(* user's history and the team's schedule.                                 *)
(*                                                                         *)
(* Texts are sequences of one-character strings, so that lower(), strip(), *)
(* split(), replace() and the substring tests of the source are computed   *)
(* character by character.  Calendar dates are day-of-year ordinals of one *)
(* (non-leap) year; their ISO text form is computed by IsoFormat and read  *)
(* back by ParseIso.  Every parse_date reads the clock: a function that    *)
(* calls it several times is given the days its readings see, and a        *)
(* background task takes one step per reading.                             *)
(***************************************************************************)
EXTENDS Integers, Sequences, FiniteSets, TLC

VARIABLES
    today,      \* the current date in US/Eastern, a day-of-year ordinal
    pdtGuess,   \* what parsedatetime makes of a phrase outside the modelled grammar
    store,      \* the DynamoDB table slack-iam-log: a set of items
    store0,     \* history: the table as it was at the start
    tasks,      \* the background log_time_task invocations
    lastPut,    \* history: per (user_id, date), the put_item last applied
    reqs,       \* number of /iam requests handled
    lastResp,   \* the request last handled by iam() and its response
    hook,       \* messages daily_update posted to the webhook
    expIn,      \* argument of parse_date_options
    expClk,     \* the days the clock readings of that call see, in order
    expOut,     \* outcome of parse_date_options(expIn)
    expTask,    \* outcome of lines 218-221 of log_time_task on options expIn
    cmdIn,      \* argument of parse_subcommand / parse_options
    cmdOut,     \* their outcome
    listOut     \* outcome of the last listing function applied

vars == <<today, pdtGuess, store0, store, tasks, lastPut, reqs, lastResp, hook,
          expIn, expClk, expOut, expTask, cmdIn, cmdOut, listOut>>

----------------------------------------------------------------------------
(* Characters and texts *)

UpperChars == <<"A","B","C","D","E","F","G","H","I","J","K","L","M",
                "N","O","P","Q","R","S","T","U","V","W","X","Y","Z">>

LowerChars == <<"a","b","c","d","e","f","g","h","i","j","k","l","m",
                "n","o","p","q","r","s","t","u","v","w","x","y","z">>

DigitChars == <<"0","1","2","3","4","5","6","7","8","9">>

\* The characters used, in ascending code-point order (Python compares
\* strings by code point).
CodeOrder == <<"\t", "\n", " ", "-">> \o DigitChars \o UpperChars \o LowerChars

CharCode(c) == CHOOSE i \in 1..Len(CodeOrder) : CodeOrder[i] = c

IsSpace(c) == c \in {" ", "\t", "\n"}

LowerChar(c) ==
    IF \E i \in 1..Len(UpperChars) : UpperChars[i] = c
    THEN LowerChars[CHOOSE i \in 1..Len(UpperChars) : UpperChars[i] = c]
    ELSE c

UpperChar(c) ==
    IF \E i \in 1..Len(LowerChars) : LowerChars[i] = c
    THEN UpperChars[CHOOSE i \in 1..Len(LowerChars) : LowerChars[i] = c]
    ELSE c

\* str.lower()
LowerText(s) == [i \in 1..Len(s) |-> LowerChar(s[i])]

\* str.upper()
UpperText(s) == [i \in 1..Len(s) |-> UpperChar(s[i])]

\* str.find(sub) + 1: the first position where sub occurs in s, 0 if none
Find(sub, s) ==
    LET hits == {i \in 1..(Len(s) - Len(sub) + 1) :
                    SubSeq(s, i, i + Len(sub) - 1) = sub}
    IN  IF hits = {} THEN 0 ELSE CHOOSE i \in hits : \A j \in hits : i <= j

\* sub in s
Contains(sub, s) == Find(sub, s) # 0

\* str.split(sep), sep non-empty: non-overlapping occurrences, left to right
RECURSIVE Split(_, _)
Split(s, sep) ==
    LET i == Find(sep, s)
    IN  IF i = 0 THEN <<s>>
        ELSE <<SubSeq(s, 1, i - 1)>> \o Split(SubSeq(s, i + Len(sep), Len(s)), sep)

\* str.replace(old, ''), old non-empty
RECURSIVE Remove(_, _)
Remove(s, old) ==
    LET i == Find(old, s)
    IN  IF i = 0 THEN s
        ELSE SubSeq(s, 1, i - 1) \o Remove(SubSeq(s, i + Len(old), Len(s)), old)

\* str.lstrip() / str.rstrip() / str.strip()
RECURSIVE LStrip(_)
LStrip(s) == IF s # <<>> /\ IsSpace(Head(s)) THEN LStrip(Tail(s)) ELSE s

RECURSIVE RStrip(_)
RStrip(s) ==
    IF s # <<>> /\ IsSpace(s[Len(s)]) THEN RStrip(SubSeq(s, 1, Len(s) - 1)) ELSE s

Strip(s) == RStrip(LStrip(s))

\* the length of the leading run of non-whitespace characters of s
RECURSIVE TokenLen(_)
TokenLen(s) == IF s = <<>> \/ IsSpace(Head(s)) THEN 0 ELSE 1 + TokenLen(Tail(s))

\* str.split() with no argument: the whitespace-delimited tokens
RECURSIVE Tokens(_)
Tokens(s) ==
    LET t == LStrip(s)
        n == TokenLen(t)
    IN  IF t = <<>> THEN <<>>
        ELSE <<SubSeq(t, 1, n)>> \o Tokens(SubSeq(t, n + 1, Len(t)))

\* sep.join(parts)
RECURSIVE Join(_, _)
Join(parts, sep) ==
    IF parts = <<>> THEN <<>>
    ELSE IF Len(parts) = 1 THEN parts[1]
    ELSE parts[1] \o sep \o Join(Tail(parts), sep)

\* a < b for Python strings: by code point, a proper prefix first
RECURSIVE StrLess(_, _)
StrLess(a, b) ==
    IF b = <<>> THEN FALSE
    ELSE IF a = <<>> THEN TRUE
    ELSE IF Head(a) # Head(b) THEN CharCode(Head(a)) < CharCode(Head(b))
    ELSE StrLess(Tail(a), Tail(b))

StrLeq(a, b) == a = b \/ StrLess(a, b)

\* sorted(lines)
RECURSIVE Sorted(_)
Sorted(lines) ==
    IF lines = <<>> THEN <<>>
    ELSE LET i == CHOOSE k \in 1..Len(lines) :
                      \A j \in 1..Len(lines) : StrLeq(lines[k], lines[j])
         IN  <<lines[i]>> \o
             Sorted(SubSeq(lines, 1, i - 1) \o SubSeq(lines, i + 1, Len(lines)))

----------------------------------------------------------------------------
(* Literals of the source *)

T_and     == <<" ","a","n","d"," ">>
T_through == <<" ","t","h","r","o","u","g","h"," ">>
T_to      == <<" ","t","o"," ">>
T_thru    == <<" ","t","h","r","u"," ">>

through_words == <<T_through, T_to, T_thru>>

T_today     == <<"t","o","d","a","y">>
T_tomorrow  == <<"t","o","m","o","r","r","o","w">>
T_yesterday == <<"y","e","s","t","e","r","d","a","y">>
T_month_ago == <<"a"," ","m","o","n","t","h"," ","a","g","o">>
T_month_from_now ==
    <<"a"," ","m","o","n","t","h"," ","f","r","o","m"," ","n","o","w">>

T_wfh      == <<"w","f","h">>
T_ooo      == <<"o","o","o">>
T_in       == <<"i","n">>
T_help     == <<"h","e","l","p">>
T_schedule == <<"s","c","h","e","d","u","l","e">>
T_history  == <<"h","i","s","t","o","r","y">>

----------------------------------------------------------------------------
(* Calendar *)

YearText == <<"2","0","1","9">>

MonthDays == <<31, 28, 31, 30, 31, 30, 31, 31, 30, 31, 30, 31>>

\* the day-of-year ordinal of month m, day d
RECURSIVE Ord(_, _)
Ord(m, d) == IF m = 1 THEN d ELSE MonthDays[m - 1] + Ord(m - 1, d)

MonthOf(n) == CHOOSE m \in 1..12 : Ord(m, 1) <= n /\ n <= Ord(m, MonthDays[m])

DayOf(n) == n - Ord(MonthOf(n), 1) + 1

TwoDigits(k) == <<DigitChars[(k \div 10) + 1], DigitChars[(k % 10) + 1]>>

\* str(date): YYYY-MM-DD
IsoFormat(n) ==
    YearText \o <<"-">> \o TwoDigits(MonthOf(n)) \o <<"-">> \o TwoDigits(DayOf(n))

IsDigit(c) == \E i \in 1..Len(DigitChars) : DigitChars[i] = c

DigitVal(c) == (CHOOSE i \in 1..Len(DigitChars) : DigitChars[i] = c) - 1

NoDate == 0

\* The date a YYYY-MM-DD text denotes, NoDate when it is not such a text of
\* the modelled year.
ParseIso(s) ==
    IF /\ Len(s) = 10
       /\ SubSeq(s, 1, 4) = YearText
       /\ s[5] = "-" /\ s[8] = "-"
       /\ \A i \in {6, 7, 9, 10} : IsDigit(s[i])
    THEN LET m == 10 * DigitVal(s[6]) + DigitVal(s[7])
             d == 10 * DigitVal(s[9]) + DigitVal(s[10])
         IN  IF m \in 1..12 /\ d >= 1 /\ d <= MonthDays[m] THEN Ord(m, d) ELSE NoDate
    ELSE NoDate

\* parsedatetime's month arithmetic: the same day of the month k months
\* away, cut to that month's length
IncMonth(n, k) ==
    LET m == MonthOf(n) + k
        d == DayOf(n)
    IN  Ord(m, IF d > MonthDays[m] THEN MonthDays[m] ELSE d)

----------------------------------------------------------------------------
(* Date Resolver: parse_date *)

\* The dates today may be: around a month end, so that ranges and windows
\* cross month boundaries and the month arithmetic is cut to a month's length.
Todays == {Ord(3, 30), Ord(3, 31)}

\* What parsedatetime may make of a phrase outside the modelled grammar: no
\* date at all, or some date.
PdtGuesses(td) == {NoDate, td - 1}

\* cal.parseDT(date_str, sourceTime): the date found, NoDate when the parse
\* flag is 0.  The grammar modelled: today, tomorrow, yesterday, a month
\* ago, a month from now and YYYY-MM-DD literals, in any letter case and
\* with surrounding whitespace; the empty text holds no date.
ParseDT(date_str, td, guess) ==
    LET s == Strip(LowerText(date_str))
    IN  IF s = <<>> THEN NoDate
        ELSE IF s = T_today THEN td
        ELSE IF s = T_tomorrow THEN td + 1
        ELSE IF s = T_yesterday THEN td - 1
        ELSE IF s = T_month_ago THEN IncMonth(td, -1)
        ELSE IF s = T_month_from_now THEN IncMonth(td, 1)
        ELSE IF ParseIso(s) # NoDate THEN ParseIso(s)
        ELSE guess

\* The outcome of a raise InvalidDate
InvalidDate == <<"InvalidDate">>

\* Every parse_date reads the clock anew (line 91).  clk, not empty, lists
\* the days the successive readings of one call see; At(clk, k) is the day
\* of the k-th, a reading past the end of the list seeing the day of the
\* last.
At(clk, k) == IF k <= Len(clk) THEN clk[k] ELSE clk[Len(clk)]

\* the lists of n readings that begin on day td and pass midnight at most
\* once
ClockRuns(td, n) ==
    {[j \in 1..n |-> IF j <= k THEN td ELSE td + 1] : k \in 1..n}

\* parse_date(date_str): the ISO text of the date, or InvalidDate
parse_date(date_str, td, guess) ==
    LET parsed_date == ParseDT(date_str, td, guess)
    IN  IF parsed_date = NoDate THEN InvalidDate ELSE IsoFormat(parsed_date)

----------------------------------------------------------------------------
(* Range Expander: parse_date_options *)

Raised(kind) == [ok |-> FALSE, err |-> kind, dates |-> <<>>]

Returned(ds) == [ok |-> TRUE, err |-> "", dates |-> ds]

\* [parse_date(date_opt) for date_opt in date_opts], line 190: the i-th
\* call is reading base + i of the clock
ResolveAll(date_opts, clk, base, guess) ==
    LET rs == [i \in 1..Len(date_opts) |->
                  parse_date(date_opts[i], At(clk, base + i), guess)]
    IN  IF \E i \in 1..Len(rs) : rs[i] = InvalidDate
        THEN Raised("InvalidDate")
        ELSE Returned(rs)

\* the number of parse_date calls line 190 makes: up to the first that raises
ResolveReads(date_opts, clk, base, guess) ==
    LET bad == {i \in 1..Len(date_opts) :
                   parse_date(date_opts[i], At(clk, base + i), guess) = InvalidDate}
    IN  IF bad = {} THEN Len(date_opts)
        ELSE CHOOSE i \in bad : \A j \in bad : i <= j

\* RangeDates with the end date left out (while start_date < end_date)
RECURSIVE RangeDatesExclusive(_, _)
RangeDatesExclusive(start_date, end_date) ==
    IF start_date < end_date
    THEN <<IsoFormat(start_date)>> \o RangeDatesExclusive(start_date + 1, end_date)
    ELSE <<>>

\* the while loop of parse_date_options: str(start_date.date()) for each day
\* from start_date to end_date
RECURSIVE RangeDates(_, _)
RangeDates(start_date, end_date) ==
    IF start_date <= end_date
    THEN <<IsoFormat(start_date)>> \o RangeDates(start_date + 1, end_date)
    ELSE <<>>

\* the first of through_words that occurs in the lowered text
SplitWord(low) ==
    through_words[CHOOSE i \in 1..Len(through_words) :
        /\ Contains(through_words[i], low)
        /\ \A j \in 1..(i - 1) : ~Contains(through_words[j], low)]

\* the elif branch of parse_date_options: the start is resolved at the first
\* reading of the clock (line 173), the end at the second (line 174), the
\* days of the range at the readings after them (line 190)
ExpandRange(low, clk, guess) ==
    LET end_dates == Split(low, SplitWord(low))
    IN  IF Len(end_dates) # 2 THEN Raised("AssertionError")
        ELSE LET a == parse_date(end_dates[1], At(clk, 1), guess)
                 b == parse_date(end_dates[2], At(clk, 2), guess)
             IN  IF a = InvalidDate \/ b = InvalidDate THEN Raised("InvalidDate")
                 ELSE IF ~(ParseIso(a) <= ParseIso(b)) THEN Raised("AssertionError")
                 ELSE ResolveAll(RangeDates(ParseIso(a), ParseIso(b)), clk, 2, guess)

\* lines 157-170: the text has no " and ", has a range connector, and the
\* split on the connector does not give two segments; the assert of line 170
\* fails before any date is resolved
SplitFails(opts) ==
    LET low == LowerText(opts)
    IN  /\ ~Contains(T_and, low)
        /\ \E i \in 1..Len(through_words) : Contains(through_words[i], low)
        /\ Len(Split(low, SplitWord(low))) # 2

\* the number of parse_date calls the elif branch makes
RangeReads(low, clk, guess) ==
    LET end_dates == Split(low, SplitWord(low))
    IN  IF Len(end_dates) # 2 THEN 0
        ELSE LET a == parse_date(end_dates[1], At(clk, 1), guess)
                 b == parse_date(end_dates[2], At(clk, 2), guess)
             IN  IF a = InvalidDate THEN 1
                 ELSE IF b = InvalidDate THEN 2
                 ELSE IF ~(ParseIso(a) <= ParseIso(b)) THEN 2
                 ELSE 2 + ResolveReads(RangeDates(ParseIso(a), ParseIso(b)),
                                       clk, 2, guess)

\* parse_date_options with the two tests in the other order: a range
\* connector is looked for before " and "
parse_date_options_range_first(opts, clk, guess) ==
    LET low == LowerText(opts)
    IN  IF \E i \in 1..Len(through_words) : Contains(through_words[i], low)
        THEN ExpandRange(low, clk, guess)
        ELSE IF Contains(T_and, low)
        THEN ResolveAll(Split(low, T_and), clk, 0, guess)
        ELSE ResolveAll(<<opts>>, clk, 0, guess)

\* parse_date_options(opts), its clock readings seeing the days clk
parse_date_options(opts, clk, guess) ==
    LET low == LowerText(opts)
    IN  IF Contains(T_and, low)
        THEN ResolveAll(Split(low, T_and), clk, 0, guess)
        ELSE IF \E i \in 1..Len(through_words) : Contains(through_words[i], low)
        THEN ExpandRange(low, clk, guess)
        ELSE ResolveAll(<<opts>>, clk, 0, guess)

\* the number of times parse_date_options(opts) reads the clock
parse_date_options_reads(opts, clk, guess) ==
    LET low == LowerText(opts)
    IN  IF Contains(T_and, low)
        THEN ResolveReads(Split(low, T_and), clk, 0, guess)
        ELSE IF \E i \in 1..Len(through_words) : Contains(through_words[i], low)
        THEN RangeReads(low, clk, guess)
        ELSE ResolveReads(<<opts>>, clk, 0, guess)

\* TaskDates without the default for empty options
TaskDatesNoDefault(options, clk, guess) == parse_date_options(options, clk, guess)

\* lines 218-221 of log_time_task: the dates a write task goes on to put
TaskDates(options, clk, guess) ==
    parse_date_options(IF Len(options) = 0 THEN T_today ELSE options, clk, guess)

----------------------------------------------------------------------------
(* Values of the variables a specification does not use *)

Pending == [ok |-> FALSE, err |-> "pending", dates |-> <<>>]

NoResp == [req |-> <<>>, user |-> "", status |-> 0, rtype |-> "", text |-> "",
           attach |-> <<>>, clk |-> <<>>]

NoCmd == [sc |-> <<>>, opts |-> <<>>, fault |-> "pending"]

NoList == [scope |-> "none", user |-> "", text |-> <<>>, clk |-> <<>>]

IdleSystem ==
    /\ store = {} /\ store0 = {} /\ tasks = <<>> /\ lastPut = {}
    /\ reqs = 0 /\ lastResp = NoResp /\ hook = <<>>

IdleExpand == expIn = <<>> /\ expClk = <<>> /\ expOut = Pending /\ expTask = Pending

IdleSplit == cmdIn = <<>> /\ cmdOut = NoCmd

IdleList == listOut = NoList

----------------------------------------------------------------------------
(* SpecExpand: parse_date_options applied to bounded option texts *)

MaxPieces == 3

T_And == <<" ","A","n","d"," ">>

\* date expressions: two the grammar knows, the empty text, and one outside
\* the grammar
Words == {T_today, T_tomorrow, <<>>, <<"x">>}

\* the conjunction separator (in mixed case: the source lowers the text
\* before it looks for " and ") and two of the range connectors
Connectors == {T_And, T_to, T_thru}

\* the texts of at most k words joined by connectors
RECURSIVE Phrases(_)
Phrases(k) ==
    IF k <= 1 THEN Words
    ELSE Phrases(k - 1) \cup
         {p \o c \o w : p \in Phrases(k - 1), c \in Connectors, w \in Words}

ExpandInputs == Phrases(MaxPieces)

InitExpand ==
    /\ today \in Todays
    /\ pdtGuess \in PdtGuesses(today)
    /\ expIn \in ExpandInputs
    /\ expClk \in ClockRuns(today, MaxPieces)
    /\ expOut = Pending /\ expTask = Pending
    /\ IdleSystem /\ IdleSplit /\ IdleList

ExpandStep ==
    /\ expOut = Pending
    /\ expOut' = parse_date_options(expIn, expClk, pdtGuess)
    /\ UNCHANGED <<today, pdtGuess, store0, store, tasks, lastPut, reqs, lastResp, hook,
                   expIn, expClk, expTask, cmdIn, cmdOut, listOut>>

DefaultStep ==
    /\ expOut # Pending
    /\ expTask = Pending
    /\ expTask' = TaskDates(expIn, expClk, pdtGuess)
    /\ UNCHANGED <<today, pdtGuess, store0, store, tasks, lastPut, reqs, lastResp, hook,
                   expIn, expClk, expOut, cmdIn, cmdOut, listOut>>

NextExpand == ExpandStep \/ DefaultStep

SpecExpand == InitExpand /\ [][NextExpand]_vars

----------------------------------------------------------------------------
(* Command splitting: parse_subcommand, parse_options *)

IndexError == <<"IndexError">>

\* command_text.strip().split()[0].lower(); IndexError when there is no token
parse_subcommand(command_text) ==
    LET toks == Tokens(Strip(command_text))
    IN  IF toks = <<>> THEN IndexError ELSE LowerText(toks[1])

\* command_text.replace(sc, '').strip()
parse_options(command_text) ==
    LET sc == parse_subcommand(command_text)
    IN  IF sc = IndexError THEN IndexError
        ELSE Strip(Remove(command_text, sc))

\* lines 270-271 of iam(): both results, or the fault raised
SplitCommand(command_text) ==
    IF parse_subcommand(command_text) = IndexError
    THEN [sc |-> <<>>, opts |-> <<>>, fault |-> "IndexError"]
    ELSE [sc |-> parse_subcommand(command_text),
          opts |-> parse_options(command_text), fault |-> ""]

(* SpecSplit: the two functions applied to every text of a small alphabet *)

MaxTextLen == 5

SplitAlphabet == {"i", "n", "N", " "}

SplitInputs == UNION {[1..k -> SplitAlphabet] : k \in 0..MaxTextLen}

InitSplit ==
    /\ today \in Todays
    /\ pdtGuess = NoDate
    /\ cmdIn \in SplitInputs
    /\ cmdOut = NoCmd
    /\ IdleSystem /\ IdleExpand /\ IdleList

SplitStep ==
    /\ cmdOut = NoCmd
    /\ cmdOut' = SplitCommand(cmdIn)
    /\ UNCHANGED <<today, pdtGuess, store0, store, tasks, lastPut, reqs, lastResp, hook,
                   expIn, expClk, expOut, expTask, cmdIn, listOut>>

NextSplit == SplitStep

SpecSplit == InitSplit /\ [][NextSplit]_vars

----------------------------------------------------------------------------
(* Store and Status Aggregator *)

Users == {"U1", "U2"}

\* request.form['user_name'] of each user
UserName(u) == IF u = "U1" THEN <<"b","o","b">> ELSE <<"a","n","n">>

Item(u, d, st) == [user_id |-> u, date |-> d, status |-> st, user_name |-> UserName(u)]

\* PutItem on a table keyed by user_id alone: the item replaces every item
\* of its user
PutItemByUser(table, item) ==
    {r \in table : r.user_id # item.user_id} \cup {item}

\* log_table.put_item(Item=...): the table's key is (user_id, date), so the
\* item replaces the one stored under its key
PutItem(table, item) ==
    {r \in table : ~(r.user_id = item.user_id /\ r.date = item.date)} \cup {item}

\* submit_status(user_id, the_date, the_status, user_name)
submit_status(table, user_id, the_date, the_status) ==
    PutItem(table, Item(user_id, the_date, the_status))

\* a list holding the elements of a set, in some order
RECURSIVE SeqOf(_)
SeqOf(S) ==
    IF S = {} THEN <<>>
    ELSE LET x == CHOOSE x \in S : TRUE IN <<x>> \o SeqOf(S \ {x})

T_dash == <<" ","-"," ">>

NL == <<"\n">>

Shown(stat) == LowerText(stat.status) \in {T_wfh, T_ooo}

\* the sorted list of get_todays_status: one reading of the clock
TodayLines(table, clk, guess) ==
    LET all_statuses == {r \in table : r.date = parse_date(T_today, At(clk, 1), guess)}
        kept == SeqOf({r \in all_statuses : Shown(r)})
    IN  Sorted([i \in 1..Len(kept) |->
                  kept[i].user_name \o T_dash \o UpperText(kept[i].status)])

get_todays_status(table, clk, guess) == Join(TodayLines(table, clk, guess), NL)

\* the items the query of get_history returns: those of the user dated a
\* month before the first reading of the clock or later
HistoryItems(table, user_id, clk, guess) ==
    {r \in table : /\ r.user_id = user_id
                   /\ StrLeq(parse_date(T_month_ago, At(clk, 1), guess), r.date)}

\* the reading of the clock at which item r of all_statuses is compared with
\* today: the query returns the items in the order of their dates, and
\* parse_date('today') is called for those whose status is shown
HistoryReading(all_statuses, r) ==
    2 + Cardinality({q \in all_statuses : Shown(q) /\ StrLess(q.date, r.date)})

\* HistoryLines without the test stat['date'] <= parse_date('today')
HistoryLinesNoUpper(table, user_id, clk, guess) ==
    LET all_statuses == HistoryItems(table, user_id, clk, guess)
        kept == SeqOf({r \in all_statuses : Shown(r)})
    IN  Sorted([i \in 1..Len(kept) |->
                  kept[i].date \o T_dash \o UpperText(kept[i].status)])

\* the sorted list of get_history
HistoryLines(table, user_id, clk, guess) ==
    LET all_statuses == HistoryItems(table, user_id, clk, guess)
        kept == SeqOf({r \in all_statuses :
                          /\ Shown(r)
                          /\ StrLeq(r.date,
                                    parse_date(T_today,
                                               At(clk, HistoryReading(all_statuses, r)),
                                               guess))})
    IN  Sorted([i \in 1..Len(kept) |->
                  kept[i].date \o T_dash \o UpperText(kept[i].status)])

get_history(table, user_id, clk, guess) ==
    Join(HistoryLines(table, user_id, clk, guess), NL)

\* the sorted list of get_schedule: start_date at the first reading of the
\* clock, end_date at the second
ScheduleLines(table, clk, guess) ==
    LET start_date == parse_date(T_today, At(clk, 1), guess)
        end_date == parse_date(T_month_from_now, At(clk, 2), guess)
        kept == SeqOf({r \in table : /\ Shown(r)
                                     /\ StrLeq(start_date, r.date)
                                     /\ StrLeq(r.date, end_date)})
    IN  Sorted([i \in 1..Len(kept) |->
                  kept[i].date \o T_dash \o kept[i].user_name \o T_dash
                      \o UpperText(kept[i].status)])

get_schedule(table, clk, guess) == Join(ScheduleLines(table, clk, guess), NL)

(* SpecListing: the three listings applied to bounded tables *)

MaxItems == 2

\* dates on both sides of every window edge
EdgeDates(td) ==
    {IncMonth(td, -1) - 1, IncMonth(td, -1), td - 1, td, td + 1,
     IncMonth(td, 1), IncMonth(td, 1) + 1}

\* statuses of the items the listings are given (the table is the external
\* store, read as it is): recognized in lower and in mixed case, in, and an
\* unrecognized one
StoredStatuses == {T_wfh, <<"O","O","o">>, T_in, <<"s","i","c","k">>}

ItemsAt(td) ==
    {Item(u, IsoFormat(d), st) : u \in Users, d \in EdgeDates(td), st \in StoredStatuses}

KeyUnique(table) ==
    \A r1, r2 \in table :
        (r1.user_id = r2.user_id /\ r1.date = r2.date) => r1 = r2

RECURSIVE TablesUpTo(_, _)
TablesUpTo(n, td) ==
    IF n = 0 THEN {{}}
    ELSE TablesUpTo(n - 1, td) \cup
         {t \cup {r} : t \in TablesUpTo(n - 1, td), r \in ItemsAt(td)}

InitListing ==
    /\ today \in Todays
    /\ pdtGuess = NoDate
    /\ store \in {t \in TablesUpTo(MaxItems, today) : KeyUnique(t)}
    /\ store0 = store
    /\ tasks = <<>> /\ lastPut = {} /\ reqs = 0 /\ lastResp = NoResp /\ hook = <<>>
    /\ listOut = NoList
    /\ IdleExpand /\ IdleSplit

ListToday ==
    /\ listOut = NoList
    /\ listOut' = [scope |-> "today", user |-> "", clk |-> <<today>>,
                   text |-> get_todays_status(store, <<today>>, pdtGuess)]
    /\ UNCHANGED <<today, pdtGuess, store0, store, tasks, lastPut, reqs, lastResp, hook,
                   expIn, expClk, expOut, expTask, cmdIn, cmdOut>>

ListHistory(u) ==
    /\ listOut = NoList
    /\ \E clk \in ClockRuns(today, 1 + MaxItems) :
          listOut' = [scope |-> "history", user |-> u, clk |-> clk,
                      text |-> get_history(store, u, clk, pdtGuess)]
    /\ UNCHANGED <<today, pdtGuess, store0, store, tasks, lastPut, reqs, lastResp, hook,
                   expIn, expClk, expOut, expTask, cmdIn, cmdOut>>

ListSchedule ==
    /\ listOut = NoList
    /\ \E clk \in ClockRuns(today, 2) :
          listOut' = [scope |-> "schedule", user |-> "", clk |-> clk,
                      text |-> get_schedule(store, clk, pdtGuess)]
    /\ UNCHANGED <<today, pdtGuess, store0, store, tasks, lastPut, reqs, lastResp, hook,
                   expIn, expClk, expOut, expTask, cmdIn, cmdOut>>

\* the history is asked for by one user, of a table holding items of both
NextListing == ListToday \/ (\E u \in {"U1"} : ListHistory(u)) \/ ListSchedule

SpecListing == InitListing /\ [][NextListing]_vars

----------------------------------------------------------------------------
(* Command Handler: iam(), log_time_task(), daily_update() *)

T_everyone == <<"E","v","e","r","y","o","n","e"," ","i","s"," ","p","l","a","n","n","i","n","g"," ","t","o"," ","b","e"," ","i","n"," ","o","f","f","i","c","e"," ","t","o","d","a","y",".">>

\* dict(text=format_exc()): a traceback
Traceback == <<"traceback">>

\* response_text before any assignment to it
Unbound == <<"unbound">>

\* dict(text=help_attachment_text)
HelpAttachment == <<"help_attachment_text">>

IsWrite(sc) == sc = T_wfh \/ sc = T_ooo \/ sc = T_in

Response(req, u, status, rtype, text, attach) ==
    [req |-> req, user |-> u, status |-> status, rtype |-> rtype, text |-> text,
     attach |-> attach]

Oops(req, u) ==
    Response(req, u, 200, "ephemeral", "Oops! Something went wrong!", Traceback)

\* lines 294-312 of iam(): the schedule subcommand
ScheduleResponse(req, u, up, clk) ==
    IF ~up THEN Oops(req, u)
    ELSE Response(req, u, 200, "in_channel", "Upcoming WFH/OOO statuses:",
                  get_schedule(store, clk, pdtGuess))

\* TodayResponse without the substitution for an empty listing
TodayResponseRaw(req, u, up, clk) ==
    IF ~up THEN Oops(req, u)
    ELSE Response(req, u, 200, "in_channel", "Today's WFH/OOO statuses:",
                  get_todays_status(store, clk, pdtGuess))

\* lines 314-333 of iam(): the today subcommand
TodayResponse(req, u, up, clk) ==
    IF ~up THEN Oops(req, u)
    ELSE LET todays_statuses == get_todays_status(store, clk, pdtGuess)
         IN  Response(req, u, 200, "in_channel", "Today's WFH/OOO statuses:",
                      IF Len(todays_statuses) = 0 THEN T_everyone
                      ELSE todays_statuses)

\* lines 335-351 of iam(): the history subcommand
HistoryResponse(req, u, up, clk) ==
    IF ~up THEN Oops(req, u)
    ELSE Response(req, u, 200, "", "My WFH/OOO status from the past month:",
                  get_history(store, u, clk, pdtGuess))

\* the response of iam() to raw text req from user u; valid: the token and
\* team id match; up: the table answers the query; clk: the days the clock
\* readings of the listing see
IamResponse(req, u, valid, up, clk) ==
    LET c == SplitCommand(req)
    IN  IF ~valid THEN Response(req, u, 400, "", "", <<>>)
        ELSE IF c.fault # "" THEN Response(req, u, 500, "", c.fault, <<>>)
        ELSE IF IsWrite(c.sc)
        THEN Response(req, u, 200, "ephemeral", "logging...", <<>>)
        ELSE IF c.sc = T_help
        THEN Response(req, u, 200, "", "help_text", HelpAttachment)
        ELSE IF c.sc = T_schedule THEN ScheduleResponse(req, u, up, clk)
        ELSE IF c.sc = T_today THEN TodayResponse(req, u, up, clk)
        ELSE IF c.sc = T_history THEN HistoryResponse(req, u, up, clk)
        ELSE Response(req, u, 200, "", "Unknown subcommand!", HelpAttachment)

\* a log_time_task invocation; applied: the dates it has put so far
NewTask(u, subcommand, options) ==
    [user_id |-> u, subcommand |-> subcommand, options |-> options, pc |-> "start",
     clk |-> <<>>, the_dates |-> <<>>, i |-> 0, applied |-> <<>>, response_text |-> Unbound,
     posts |-> <<>>, raised |-> <<>>]

\* iam(): one request, answered at once; a write subcommand starts a
\* log_time_task, named in tasks by the request that started it
Iam(req, u, valid, up, clk) ==
    LET c == SplitCommand(req)
        starts == valid /\ c.fault = "" /\ IsWrite(c.sc)
    IN  /\ reqs' = reqs + 1
        /\ lastResp' = IamResponse(req, u, valid, up, clk) @@ [clk |-> clk]
        /\ tasks' = IF starts THEN (<<req, u>> :> NewTask(u, c.sc, c.opts)) @@ tasks
                     ELSE tasks
        /\ UNCHANGED <<today, pdtGuess, store0, store, lastPut, hook,
                       expIn, expClk, expOut, expTask, cmdIn, cmdOut, listOut>>

T_will_be == <<" ","w","i","l","l"," ","b","e"," ">>
T_on      == <<" ","o","n"," ">>
T_is      == <<" ","i","s"," ">>
T_todayp  == <<" ","t","o","d","a","y",".">>
T_was     == <<" ","w","a","s"," ">>
T_dot     == <<".">>

\* line 229
WillBeText(tk) ==
    UserName(tk.user_id) \o T_will_be \o UpperText(tk.subcommand) \o T_on
        \o tk.the_dates[Len(tk.the_dates)] \o T_dot

\* line 231
IsTodayText(tk) == UserName(tk.user_id) \o T_is \o UpperText(tk.subcommand) \o T_todayp

\* line 233
WasText(tk) ==
    UserName(tk.user_id) \o T_was \o UpperText(tk.subcommand) \o T_on
        \o tk.the_dates[Len(tk.the_dates)] \o T_dot

\* lines 235-243: the message for several dates, Unbound when the final else
\* raises
ComposeText(tk) ==
    LET name == UserName(tk.user_id)
        SUB == UpperText(tk.subcommand)
        low == LowerText(tk.options)
    IN  IF Contains(T_and, low)
        THEN name \o T_is \o SUB \o T_on \o Join(tk.the_dates, T_and)
        ELSE IF \E k \in 1..Len(through_words) : Contains(through_words[k], low)
        THEN name \o T_is \o SUB \o T_on \o tk.the_dates[1] \o T_through
                 \o tk.the_dates[Len(tk.the_dates)]
        ELSE Unbound

ErrorPost == [rtype |-> "ephemeral", text |-> <<"Oops, something went wrong!">>]

\* the try block raised kind: control passes to the except clause
Excepted(tk, kind) == [tk EXCEPT !.raised = Append(@, kind), !.pc = "except"]

\* PutFailed with the exception swallowed inside the loop: the task goes on
\* to the next date
PutFailedContinue(tk) ==
    [tk EXCEPT !.raised = Append(@, "StoreError"), !.i = @ + 1,
               !.pc = IF tk.i = Len(tk.the_dates) THEN "compose" ELSE "put"]

\* what a failed put leaves of the task: the exception leaves the loop
PutFailed(tk) == Excepted(tk, "StoreError")

Others == <<today, pdtGuess, store0, reqs, lastResp, hook,
            expIn, expClk, expOut, expTask, cmdIn, cmdOut, listOut>>

\* log_time_task, lines 215-221 up to the first reading of the clock: after
\* the sleep, default the options and enter parse_date_options, whose assert
\* of line 170 fails here when a range connector does not split the text in
\* two
TaskStart(t) ==
    /\ tasks[t].pc = "start"
    /\ LET options == IF Len(tasks[t].options) = 0 THEN T_today ELSE tasks[t].options
       IN  tasks' = [tasks EXCEPT ![t] =
                IF SplitFails(options)
                THEN Excepted([@ EXCEPT !.options = options], "AssertionError")
                ELSE [@ EXCEPT !.options = options, !.pc = "parse"]]
    /\ UNCHANGED <<store, lastPut>>
    /\ UNCHANGED Others

\* line 221, one parse_date call of parse_date_options (lines 173, 174,
\* 190): it reads the clock; after the last call the dates are returned, or
\* the failure is raised
TaskParse(t) ==
    /\ tasks[t].pc = "parse"
    /\ LET tk == tasks[t]
           clk == Append(tk.clk, today)
           r == parse_date_options(tk.options, clk, pdtGuess)
       IN  tasks' = [tasks EXCEPT ![t] =
                IF parse_date_options_reads(tk.options, clk, pdtGuess) > Len(clk)
                THEN [tk EXCEPT !.clk = clk]
                ELSE IF r.ok
                THEN [tk EXCEPT !.clk = clk, !.the_dates = r.dates, !.i = 1,
                                !.pc = "put"]
                ELSE Excepted([tk EXCEPT !.clk = clk], r.err)]
    /\ UNCHANGED <<store, lastPut>>
    /\ UNCHANGED Others

\* lines 223-224: one submit_status of the loop; ok: the put succeeds.  The
\* loop ends after the last date.
TaskPut(t, ok) ==
    /\ tasks[t].pc = "put"
    /\ LET tk == tasks[t]
           d == tk.the_dates[tk.i]
       IN  IF ok
           THEN /\ store' = submit_status(store, tk.user_id, d, tk.subcommand)
                /\ lastPut' = {p \in lastPut : ~(p.user_id = tk.user_id /\ p.date = d)}
                                \cup {[task |-> t, user_id |-> tk.user_id, date |-> d,
                                       status |-> tk.subcommand]}
                /\ tasks' = [tasks EXCEPT ![t] =
                        [tk EXCEPT !.i = @ + 1, !.applied = Append(@, d),
                                   !.pc = IF tk.i = Len(tk.the_dates)
                                          THEN "compose" ELSE "put"]]
           ELSE /\ tasks' = [tasks EXCEPT ![t] = PutFailed(tk)]
                /\ UNCHANGED <<store, lastPut>>
    /\ UNCHANGED Others

\* lines 226-243 up to the clock reading of line 228: a single date later
\* than today gives the "will be" message, otherwise line 230 is next;
\* several dates give their message without reading the clock
TaskCompose(t) ==
    /\ tasks[t].pc = "compose"
    /\ LET tk == tasks[t]
           the_date == tk.the_dates[Len(tk.the_dates)]
       IN  tasks' = [tasks EXCEPT ![t] =
                IF Len(tk.the_dates) = 1
                THEN IF StrLess(parse_date(T_today, today, pdtGuess), the_date)
                     THEN [tk EXCEPT !.response_text = WillBeText(tk), !.pc = "post"]
                     ELSE [tk EXCEPT !.pc = "compose230"]
                ELSE IF ComposeText(tk) = Unbound THEN Excepted(tk, "Exception")
                ELSE [tk EXCEPT !.response_text = ComposeText(tk), !.pc = "post"]]
    /\ UNCHANGED <<store, lastPut>>
    /\ UNCHANGED Others

\* lines 230-233: the clock is read again
TaskCompose230(t) ==
    /\ tasks[t].pc = "compose230"
    /\ LET tk == tasks[t]
           the_date == tk.the_dates[Len(tk.the_dates)]
       IN  tasks' = [tasks EXCEPT ![t] =
                [tk EXCEPT !.response_text =
                               IF the_date = parse_date(T_today, today, pdtGuess)
                               THEN IsTodayText(tk) ELSE WasText(tk),
                           !.pc = "post"]]
    /\ UNCHANGED <<store, lastPut>>
    /\ UNCHANGED Others

\* lines 244-253: the except clause posts the error to response_url
TaskExcept(t) ==
    /\ tasks[t].pc = "except"
    /\ tasks' = [tasks EXCEPT ![t] =
            [@ EXCEPT !.posts = Append(@, ErrorPost), !.pc = "post"]]
    /\ UNCHANGED <<store, lastPut>>
    /\ UNCHANGED Others

\* lines 255-260: the final post reads response_text; unbound, the read
\* raises UnboundLocalError out of the task
TaskFinalPost(t) ==
    /\ tasks[t].pc = "post"
    /\ LET tk == tasks[t]
       IN  tasks' = [tasks EXCEPT ![t] =
                IF tk.response_text = Unbound
                THEN [tk EXCEPT !.raised = Append(@, "UnboundLocalError"),
                                !.pc = "fault"]
                ELSE [tk EXCEPT !.posts = Append(@, [rtype |-> "in_channel",
                                                     text |-> tk.response_text]),
                                !.pc = "done"]]
    /\ UNCHANGED <<store, lastPut>>
    /\ UNCHANGED Others

\* the last day the clock reaches
MaxToday == Ord(3, 31)

\* line 91, datetime.utcnow(): the day every later parse_date sees moves on
Midnight ==
    /\ today < MaxToday
    /\ today' = today + 1
    /\ UNCHANGED <<pdtGuess, store0, store, tasks, lastPut, reqs, lastResp, hook,
                   expIn, expClk, expOut, expTask, cmdIn, cmdOut, listOut>>

\* daily_update(): posts today's listing to the webhook; a failing query is
\* not caught
DailyUpdate(up) ==
    /\ LET todays_statuses == get_todays_status(store, <<today>>, pdtGuess)
       IN  hook' = Append(hook,
                IF ~up THEN [fault |-> TRUE, rtype |-> "", attach |-> <<>>]
                ELSE [fault |-> FALSE, rtype |-> "in_channel",
                      attach |-> IF Len(todays_statuses) = 0 THEN T_everyone
                                 ELSE todays_statuses])
    /\ UNCHANGED <<today, pdtGuess, store0, store, tasks, lastPut, reqs, lastResp,
                   expIn, expClk, expOut, expTask, cmdIn, cmdOut, listOut>>

Cmd(sc, opts) == sc \o <<" ">> \o opts

----------------------------------------------------------------------------
(* Spec: write requests and their background tasks, interleaved *)

MaxTasks == 2

\* the write requests sent, each at most once: the default date, a
\* conjunction that repeats a date, a range, and a range of another user that
\* ends before it starts
WriteRequests ==
    { <<T_in, "U1">>,
      <<Cmd(T_ooo, T_today \o T_and \o T_today), "U1">>,
      <<Cmd(T_wfh, T_today \o T_to \o T_today), "U1">>,
      <<Cmd(T_in, T_tomorrow \o T_to \o T_today), "U2">> }

\* the texts of write commands
WriteTexts == {T_wfh} \cup {r[1] : r \in WriteRequests}

Init ==
    /\ today \in Todays
    /\ pdtGuess = NoDate
    /\ IdleSystem /\ IdleExpand /\ IdleSplit /\ IdleList

Next ==
    \/ \E r \in WriteRequests :
          /\ r \notin DOMAIN tasks
          /\ Cardinality(DOMAIN tasks) < MaxTasks
          /\ Iam(r[1], r[2], TRUE, TRUE, <<>>)
    \/ \E t \in DOMAIN tasks : TaskStart(t)
    \/ \E t \in DOMAIN tasks : TaskParse(t)
    \/ \E t \in DOMAIN tasks, ok \in BOOLEAN : TaskPut(t, ok)
    \/ \E t \in DOMAIN tasks : TaskCompose(t)
    \/ \E t \in DOMAIN tasks : TaskCompose230(t)
    \/ \E t \in DOMAIN tasks : TaskExcept(t)
    \/ \E t \in DOMAIN tasks : TaskFinalPost(t)
    \/ Midnight

Spec == Init /\ [][Next]_vars

----------------------------------------------------------------------------
(* SpecWrite: one write request and its background task, against a table  *)
(* that holds items already                                               *)

\* the items the table may hold at the start
WriteItems(td) ==
    { Item("U1", IsoFormat(td), T_in),
      Item("U1", IsoFormat(td + 1), T_ooo),
      Item("U2", IsoFormat(td), T_wfh) }

\* the write command sent: the default date, single dates in and outside
\* the grammar, conjunctions, ranges, a range that ends before it starts and
\* one with three segments
WriteCommands ==
    { T_wfh, T_in,
      Cmd(T_in, T_yesterday),
      Cmd(T_ooo, <<"x">>),
      Cmd(T_ooo, T_today \o T_and \o T_today),
      Cmd(T_wfh, T_today \o T_And \o T_tomorrow),
      Cmd(T_wfh, T_today \o T_to \o T_tomorrow),
      Cmd(T_ooo, T_today \o T_thru \o <<"x">>),
      Cmd(T_in, T_tomorrow \o T_to \o T_today),
      Cmd(T_wfh, T_today \o T_to \o T_tomorrow \o T_to \o T_today) }

InitWrite ==
    /\ today \in Todays
    /\ pdtGuess \in PdtGuesses(today)
    /\ store \in SUBSET WriteItems(today)
    /\ store0 = store
    /\ tasks = <<>> /\ lastPut = {} /\ reqs = 0 /\ lastResp = NoResp /\ hook = <<>>
    /\ IdleExpand /\ IdleSplit /\ IdleList

NextWrite ==
    \/ \E req \in WriteCommands, u \in Users :
          DOMAIN tasks = {} /\ Iam(req, u, TRUE, TRUE, <<>>)
    \/ \E t \in DOMAIN tasks : TaskStart(t)
    \/ \E t \in DOMAIN tasks : TaskParse(t)
    \/ \E t \in DOMAIN tasks, ok \in BOOLEAN : TaskPut(t, ok)
    \/ \E t \in DOMAIN tasks : TaskCompose(t)
    \/ \E t \in DOMAIN tasks : TaskCompose230(t)
    \/ \E t \in DOMAIN tasks : TaskExcept(t)
    \/ \E t \in DOMAIN tasks : TaskFinalPost(t)
    \/ Midnight

SpecWrite == InitWrite /\ [][NextWrite]_vars

----------------------------------------------------------------------------
(* SpecHandler: one request, or one daily update, against bounded tables *)

MaxStored == 2

\* the raw command texts sent
CommandTexts ==
    WriteTexts \cup
    { T_today, T_schedule, T_history, T_help, <<"T","o","d","a","y">>,
      <<>>, <<" ">>, <<"x">>, <<"x"," ","t","o","d","a","y">> }

HandlerItems(td) ==
    {Item(u, IsoFormat(d), st) :
        u \in Users, d \in {td - 1, td, td + 1}, st \in {T_wfh, T_in}}

RECURSIVE HandlerTables(_, _)
HandlerTables(n, td) ==
    IF n = 0 THEN {{}}
    ELSE HandlerTables(n - 1, td) \cup
         {t \cup {r} : t \in HandlerTables(n - 1, td), r \in HandlerItems(td)}

InitHandler ==
    /\ today \in Todays
    /\ pdtGuess = NoDate
    /\ store \in {t \in HandlerTables(MaxStored, today) : KeyUnique(t)}
    /\ store0 = store
    /\ tasks = <<>> /\ lastPut = {} /\ reqs = 0 /\ lastResp = NoResp /\ hook = <<>>
    /\ IdleExpand /\ IdleSplit /\ IdleList

NextHandler ==
    \/ \E req \in CommandTexts, u \in Users, valid \in BOOLEAN, up \in BOOLEAN,
          clk \in ClockRuns(today, 1 + MaxStored) :
          reqs = 0 /\ hook = <<>> /\ Iam(req, u, valid, up, clk)
    \/ \E up \in BOOLEAN : reqs = 0 /\ hook = <<>> /\ DailyUpdate(up)

SpecHandler == InitHandler /\ [][NextHandler]_vars

----------------------------------------------------------------------------
(* Properties of the Range Expander, under SpecExpand *)

\* the error kind the design calls InvalidRange: a failed assert of
\* parse_date_options
InvalidRange == "AssertionError"

ExpLow == LowerText(expIn)

ExpHasAnd == Contains(T_and, ExpLow)

ExpHasConnector == \E k \in 1..Len(through_words) : Contains(through_words[k], ExpLow)

\* the segments on both sides of the range connector
ExpSegments == Split(ExpLow, SplitWord(ExpLow))

\* whether a text resolves to a date does not depend on the day
Resolves(text) == ParseDT(text, today, pdtGuess) # NoDate

\* the dates the two segments of a range resolve to, the start at the first
\* reading of the clock and the end at the second
StartOf(segs) == ParseDT(segs[1], At(expClk, 1), pdtGuess)

EndOf(segs) == ParseDT(segs[2], At(expClk, 2), pdtGuess)

\* ds is exactly s, s + 1 day, ..., e as ISO texts
IsRun(ds, s, e) ==
    /\ Len(ds) = e - s + 1
    /\ \A k \in 1..Len(ds) : ds[k] = IsoFormat(s + k - 1)

\* C1 as stated: for a text with a range connector and no " and ", two
\* segments resolving to s <= e give exactly s, s+1, ..., e; s after e, or
\* anything but two non-empty segments, fails with InvalidRange and no dates.
C1_AsStated ==
    (expOut # Pending /\ ~ExpHasAnd /\ ExpHasConnector) =>
        LET segs == ExpSegments
            two == Len(segs) = 2 /\ segs[1] # <<>> /\ segs[2] # <<>>
        IN  /\ (two /\ Resolves(segs[1]) /\ Resolves(segs[2])) =>
                LET s == StartOf(segs)
                    e == EndOf(segs)
                IN  IF s <= e THEN expOut.ok /\ IsRun(expOut.dates, s, e)
                    ELSE expOut = Raised(InvalidRange)
            /\ ~two => expOut = Raised(InvalidRange)

\* C1 as amended: two segments resolving to s <= e give exactly s, s+1, ...,
\* e; s after e, or a split into other than two segments, fails with
\* InvalidRange; two segments of which one is empty or resolves to no date
\* fail with InvalidDate; a failure returns no dates.
C1_RangeExpansion ==
    (expOut # Pending /\ ~ExpHasAnd /\ ExpHasConnector) =>
        LET segs == ExpSegments
        IN  IF Len(segs) # 2 THEN expOut = Raised(InvalidRange)
            ELSE IF ~(Resolves(segs[1]) /\ Resolves(segs[2]))
            THEN expOut = Raised("InvalidDate")
            ELSE LET s == StartOf(segs)
                     e == EndOf(segs)
                 IN  IF s <= e THEN expOut.ok /\ IsRun(expOut.dates, s, e)
                     ELSE expOut = Raised(InvalidRange)

\* a range from today to tomorrow has been expanded while midnight passed
\* between the two resolutions: three days, across the month's end
C1_Witness ==
    /\ expOut.ok /\ ~ExpHasAnd /\ ExpHasConnector
    /\ expClk[1] = today /\ expClk[2] = today + 1
    /\ expOut.dates = <<IsoFormat(today), IsoFormat(today + 1), IsoFormat(today + 2)>>
    /\ MonthOf(today + 2) # MonthOf(today)

\* C2: a text holding " and " in any letter case, with or without a range
\* connector, gives one date per piece of the split on " and ", in written
\* order, each the resolution of its piece (a piece that resolves to no date
\* fails the whole with InvalidDate); equal dates are kept, and a connector
\* inside a piece is not expanded.
C2_ConjunctionFirst ==
    (expOut # Pending /\ ExpHasAnd) =>
        LET pieces == Split(ExpLow, T_and)
        IN  IF \A k \in 1..Len(pieces) : Resolves(pieces[k])
            THEN /\ expOut.ok
                 /\ Len(expOut.dates) = Len(pieces)
                 /\ \A k \in 1..Len(pieces) :
                        expOut.dates[k] =
                            IsoFormat(ParseDT(pieces[k], At(expClk, k), pdtGuess))
            ELSE expOut = Raised("InvalidDate")

\* a conjunction with a range connector inside a piece gave two equal dates
C2_Witness ==
    /\ expOut.ok /\ ExpHasAnd /\ ExpHasConnector
    /\ Len(expOut.dates) = 2
    /\ expOut.dates[1] = expOut.dates[2]

\* C3 as stated: parse_date_options("") returns what parse_date_options
\* ("today") returns, today's date alone, and does not fail.
C3_AsStated ==
    (expIn = <<>> /\ expOut # Pending) =>
        /\ expOut = parse_date_options(T_today, expClk, pdtGuess)
        /\ expOut = Returned(<<IsoFormat(At(expClk, 1))>>)

\* C3 as amended: log_time_task replaces empty options by "today" before it
\* expands them, so a write with empty options resolves to the same single
\* date, today's, as a write with options "today", and does not fail;
\* parse_date_options("") itself fails with InvalidDate.
C3_TaskDefaultsToToday ==
    /\ (expIn \in {<<>>, T_today} /\ expTask # Pending) =>
            expTask = Returned(<<IsoFormat(At(expClk, 1))>>)
    /\ (expIn = <<>> /\ expOut # Pending) => expOut = Raised("InvalidDate")

\* a write task has expanded empty options
C3_Witness == expIn = <<>> /\ expTask.ok /\ expOut = Raised("InvalidDate")

----------------------------------------------------------------------------
(* Properties of the write tasks, under Spec and SpecWrite *)

Range(f) == {f[k] : k \in DOMAIN f}

TaskIds == DOMAIN tasks

\* the try block of the task raised
TryFailed(tk) == tk.raised # <<>>

\* a put of the task failed
PutHasFailed(tk) == tk.raised # <<>> /\ tk.raised[1] = "StoreError"

\* the task has returned, or an exception has left it
Finished(tk) == tk.pc \in {"done", "fault"}

\* C4: a write task whose try block fails (a date that resolves to nothing,
\* an invalid range, a failed put) posts no in_channel message and, once it
\* has finished, has posted the ephemeral error and has ended without an
\* uncaught fault.
C4_FailureReportedNoFault ==
    \A t \in TaskIds :
        TryFailed(tasks[t]) =>
            /\ \A k \in 1..Len(tasks[t].posts) : tasks[t].posts[k].rtype # "in_channel"
            /\ Finished(tasks[t]) =>
                  /\ ErrorPost \in Range(tasks[t].posts)
                  /\ tasks[t].pc = "done"

\* the records a table holds under the pair (u, d)
RecordsAt(table, u, d) == {r \in table : r.user_id = u /\ r.date = d}

\* what a failed put for d_k leaves, however repeated dates are read: the
\* task has left the loop and attempts no later write; it has applied the
\* puts for d_1..d_(k-1), one at a time in the order of the expansion; the
\* table holds the new status for each of them; every record under another
\* pair is as it was at the start; once the task has finished, the error has
\* been posted
PartialWriteLeaves(t) ==
    LET tk == tasks[t]
        written == Range(SubSeq(tk.the_dates, 1, tk.i - 1))
    IN  /\ tk.pc \in {"except", "post", "done", "fault"}
        /\ tk.i \in 1..Len(tk.the_dates)
        /\ tk.applied = SubSeq(tk.the_dates, 1, tk.i - 1)
        /\ \A d \in written : Item(tk.user_id, d, tk.subcommand) \in store
        /\ \A r \in store \cup store0 :
              ~(r.user_id = tk.user_id /\ r.date \in written) =>
                  (r \in store <=> r \in store0)
        /\ Finished(tk) => ErrorPost \in Range(tk.posts)

\* C5 as stated: when the put for d_k fails, the table holds the new status
\* for exactly d_1..d_(k-1), the records for d_k..d_n are unchanged (no
\* rollback, no later write attempted), and the failure is reported.
C5_AsStated ==
    \A t \in TaskIds :
        PutHasFailed(tasks[t]) =>
            /\ PartialWriteLeaves(t)
            /\ \A j \in tasks[t].i..Len(tasks[t].the_dates) :
                  RecordsAt(store, tasks[t].user_id, tasks[t].the_dates[j])
                    = RecordsAt(store0, tasks[t].user_id, tasks[t].the_dates[j])

\* C5 as amended: when the put for d_k fails, the table holds the new status
\* for exactly d_1..d_(k-1), the records for those of d_k..d_n that are not
\* also among d_1..d_(k-1) are unchanged (a conjunction may repeat a date; no
\* rollback, no later write attempted), and the failure is reported.
C5_PartialWrite ==
    \A t \in TaskIds :
        PutHasFailed(tasks[t]) =>
            /\ PartialWriteLeaves(t)
            /\ \A j \in tasks[t].i..Len(tasks[t].the_dates) :
                  tasks[t].the_dates[j] \notin Range(tasks[t].applied) =>
                      RecordsAt(store, tasks[t].user_id, tasks[t].the_dates[j])
                        = RecordsAt(store0, tasks[t].user_id, tasks[t].the_dates[j])

\* the second put of two dates failed after the first was applied: the
\* record the table held for the second date is as it was, and the task has
\* finished
C5_Witness ==
    \E t \in TaskIds :
        /\ PutHasFailed(tasks[t])
        /\ Finished(tasks[t])
        /\ tasks[t].i = 2
        /\ tasks[t].the_dates[1] # tasks[t].the_dates[2]
        /\ Item(tasks[t].user_id, tasks[t].the_dates[1], tasks[t].subcommand) \in store
        /\ \E r \in store0 :
              /\ r.user_id = tasks[t].user_id /\ r.date = tasks[t].the_dates[2]
              /\ r.status # tasks[t].subcommand
              /\ r \in store

\* C6: under every interleaving of the tasks' puts the table holds at most
\* one item per (user_id, date), its status is that of the put last applied
\* to the pair, no put disturbs the item of another pair, and a user whose
\* last put for today is `in` has no line in today's listing.
C6_LastWriteWins ==
    /\ KeyUnique(store)
    /\ \A r \in store :
          \E p \in lastPut :
              p.user_id = r.user_id /\ p.date = r.date /\ p.status = r.status
    /\ \A p \in lastPut :
          \E r \in store :
              p.user_id = r.user_id /\ p.date = r.date /\ p.status = r.status
    /\ \A p \in lastPut :
          (p.date = IsoFormat(today) /\ p.status = T_in) =>
              \A line \in Range(TodayLines(store, <<today>>, pdtGuess)) :
                  LET name == UserName(p.user_id) \o T_dash
                  IN  SubSeq(line, 1, Len(name)) # name

\* a user's wfh for today was replaced by their later in
C6_Witness ==
    \E t1, t2 \in TaskIds :
        /\ t1 # t2
        /\ tasks[t1].subcommand = T_wfh
        /\ IsoFormat(today) \in Range(tasks[t1].applied)
        /\ \E p \in lastPut :
              /\ p.task = t2 /\ p.user_id = tasks[t1].user_id
              /\ p.date = IsoFormat(today) /\ p.status = T_in
        /\ Item(tasks[t1].user_id, IsoFormat(today), T_in) \in store

----------------------------------------------------------------------------
(* Properties of the listings, under SpecListing *)

Recognized(r) == LowerText(r.status) \in {T_wfh, T_ooo}

\* the date of item r lies in the window [lo, hi] of calendar dates
InWindow(r, lo, hi) == lo <= ParseIso(r.date) /\ ParseIso(r.date) <= hi

\* the reading of the clock at which a history compares item r with today:
\* the first reading gives the day a month ago; the recognized items of the
\* user from that day on are compared in the order of their dates, each at a
\* reading of its own
ComparedAt(u, clk, r) ==
    2 + Cardinality({q \in store :
            /\ q.user_id = u /\ Recognized(q)
            /\ IncMonth(At(clk, 1), -1) <= ParseIso(q.date)
            /\ ParseIso(q.date) < ParseIso(r.date)})

\* the items a listing of the scope is to show to user u, today being the
\* day the clock shows when the listing reads it (clk)
Qualifying(scope, u, clk) ==
    {r \in store :
        /\ Recognized(r)
        /\ CASE scope = "today" -> InWindow(r, At(clk, 1), At(clk, 1))
             [] scope = "history" ->
                    /\ r.user_id = u
                    /\ InWindow(r, IncMonth(At(clk, 1), -1),
                                   At(clk, ComparedAt(u, clk, r)))
             [] scope = "schedule" ->
                    InWindow(r, At(clk, 1), IncMonth(At(clk, 2), 1))
             [] OTHER -> FALSE}

\* the line of item r in a listing of the scope
LineOf(scope, r) ==
    CASE scope = "today" -> r.user_name \o T_dash \o UpperText(r.status)
      [] scope = "history" -> r.date \o T_dash \o UpperText(r.status)
      [] OTHER -> r.date \o T_dash \o r.user_name \o T_dash \o UpperText(r.status)

ListedLines == IF listOut.text = <<>> THEN <<>> ELSE Split(listOut.text, NL)

\* C7: in each of the three listings an item has a line exactly when its
\* status is wfh or ooo in any letter case and its date is in the scope's
\* window (today; a month ago to today; today to a month ahead) and, for
\* history, it is the requesting user's: every line is counted as often as
\* there are such items with that line.  Today is the day the clock shows
\* when the listing reads it for the comparison.
C7_ListingMembership ==
    listOut # NoList =>
        LET q == Qualifying(listOut.scope, listOut.user, listOut.clk)
            wanted == {LineOf(listOut.scope, r) : r \in q}
        IN  /\ Len(ListedLines) = Cardinality(q)
            /\ \A line \in wanted \cup Range(ListedLines) :
                  Cardinality({k \in 1..Len(ListedLines) : ListedLines[k] = line})
                    = Cardinality({r \in q : LineOf(listOut.scope, r) = line})

\* a history with one line, of the item dated a month ago, beside an item of
\* the same user dated tomorrow that has none
C7_Witness ==
    /\ listOut.scope = "history"
    /\ \A k \in 1..Len(listOut.clk) : listOut.clk[k] = today
    /\ Len(ListedLines) = 1
    /\ \E r1, r2 \in store :
          /\ r1.user_id = listOut.user /\ r2.user_id = listOut.user
          /\ Recognized(r1) /\ r1.status # LowerText(r1.status)
          /\ ParseIso(r1.date) = IncMonth(today, -1)
          /\ Recognized(r2) /\ ParseIso(r2.date) = today + 1

----------------------------------------------------------------------------
(* Properties of the request handler, under SpecHandler *)

ReqTokens == Tokens(lastResp.req)

\* the request last handled named this subcommand and was answered with a
\* listing
Listed(sc) ==
    /\ ReqTokens # <<>> /\ LowerText(ReqTokens[1]) = sc
    /\ lastResp.status = 200 /\ lastResp.rtype = "in_channel"

\* C8 as stated: with no qualifying item the listing is empty, not an error,
\* and the responses to today and to schedule both carry the fixed
\* everyone-in-office message in its place.
C8_AsStated ==
    /\ (Listed(T_today) /\ Qualifying("today", "", lastResp.clk) = {}) =>
            lastResp.attach = T_everyone
    /\ (Listed(T_schedule) /\ Qualifying("schedule", "", lastResp.clk) = {}) =>
            lastResp.attach = T_everyone

\* C8 as amended: with no qualifying item the listing is empty, not an
\* error; the response to today and the daily update carry the fixed
\* everyone-in-office message in its place; the response to schedule carries
\* the empty listing itself.
C8_EmptyListings ==
    /\ \A clk \in ClockRuns(today, 2) :
          /\ Qualifying("today", "", clk) = {} =>
                get_todays_status(store, clk, pdtGuess) = <<>>
          /\ Qualifying("schedule", "", clk) = {} =>
                get_schedule(store, clk, pdtGuess) = <<>>
    /\ (Listed(T_today) /\ Qualifying("today", "", lastResp.clk) = {}) =>
            lastResp.attach = T_everyone
    /\ \A k \in 1..Len(hook) :
          (~hook[k].fault /\ Qualifying("today", "", <<today>>) = {}) =>
              hook[k].attach = T_everyone
    /\ (Listed(T_schedule) /\ Qualifying("schedule", "", lastResp.clk) = {}) =>
            lastResp.attach = <<>>

\* today was answered with the message while the table held items, none of
\* them qualifying
C8_Witness ==
    /\ Listed(T_today) /\ lastResp.attach = T_everyone
    /\ store # {} /\ Qualifying("today", "", lastResp.clk) = {}

RecognizedCommands == {T_wfh, T_ooo, T_in, T_help, T_today, T_history, T_schedule}

\* C9: a verified request whose text has no first token among wfh, ooo, in,
\* help, today, history, schedule (the empty and the all-blank text
\* included) is answered with the Unknown subcommand help, starts no task
\* and raises no fault.
C9_UnknownNeverFails ==
    (/\ lastResp # NoResp /\ lastResp.status # 400
     /\ (ReqTokens = <<>> \/ LowerText(ReqTokens[1]) \notin RecognizedCommands)) =>
        /\ lastResp.status = 200
        /\ lastResp.text = "Unknown subcommand!"
        /\ tasks = <<>>

----------------------------------------------------------------------------
(* Properties of command splitting, under SpecSplit *)

\* the text after the first whitespace-delimited token
AfterFirstToken(text) ==
    LET t == LStrip(text) IN SubSeq(t, TokenLen(t) + 1, Len(t))

\* C10: for a text with at least one token, parse_subcommand returns the
\* first token lowered and parse_options the text after that token,
\* trimmed, every later character kept.
C10_CommandSplitting ==
    (cmdOut # NoCmd /\ Tokens(cmdIn) # <<>>) =>
        /\ cmdOut.fault = ""
        /\ cmdOut.sc = LowerText(Tokens(cmdIn)[1])
        /\ cmdOut.opts = Strip(AfterFirstToken(cmdIn))

====
